---- MODULE Spec2Model ----
(***************************************************************************)
(* Model of carton/cart.py: CartItem and the session-backed Cart.          *)
(*                                                                         *)
(* Values.  A product is a record [pk |-> n]; Django compares model        *)
(* instances by primary key, which is record equality here.  A Decimal is  *)
(* [decimal |-> n], n in minor units.  A price text is [plus, minor]: the  *)
(* text of n minor units, written with a leading "+" when plus is TRUE.    *)
(* Decimal() accepts both spellings, str() of a Decimal never writes "+".  *)
(* A Python dict is a sequence of [k, v] entries with distinct keys, in    *)
(* insertion order.  The session is a function from the keys it holds to   *)
(* their values; only session_key is of interest.                          *)
(***************************************************************************)
EXTENDS Integers, Sequences, FiniteSets, TLC

\* Bounds of the model.
MaxQuantity == 2
MaxSnapshot == 2

VARIABLES carts, session, modified, last, streak, writer

vars == <<carts, session, modified, last, streak, writer>>

\* The Cart instances (one per request) that may exist.
Requests == {1, 2}

\* carton_settings.CART_SESSION_KEY, the default of Cart.session_key.
session_key == "CART"

\* price=None, the default of Cart.add.
None == [none |-> TRUE]

\* Outcomes of a call: normal return, or the ValueError raised.
Returned == "returned"
InvalidQuantityAdd == "Quantity must be at least 1 when adding to cart"
MissingPrice == "Missing price when adding to cart"
InvalidQuantitySet == "Quantity must be positive when updating cart"

\* The primary keys in use.
PKs == {1, 2}
Products == [pk : PKs]
\* The price texts in use: "1", "+1" and "2" minor units.
PriceTexts ==
    {[plus |-> FALSE, minor |-> 1], [plus |-> TRUE, minor |-> 1], [plus |-> FALSE, minor |-> 2]}
Quantities == -1..MaxQuantity

------------------------------------------------------------------------------
\* Decimal and str

\* Decimal(text): the leading "+" does not survive parsing.
Decimal(text) == [decimal |-> text.minor]

\* str(x): of a Decimal its canonical text, of a text the text itself.
str(x) ==
    IF "decimal" \in DOMAIN x THEN [plus |-> FALSE, minor |-> x.decimal] ELSE x

------------------------------------------------------------------------------
\* Python dict and list

DictKeys(d) == {d[i].k : i \in DOMAIN d}

DictGet(d, key) == d[CHOOSE i \in DOMAIN d : d[i].k = key].v

\* A variant of DictSet that adds an entry even when the key is there.
DictSet_Append(d, key, value) == Append(d, [k |-> key, v |-> value])

\* d[key] = value: an existing key keeps its position.
DictSet(d, key, value) ==
    IF key \in DictKeys(d)
    THEN [i \in DOMAIN d |-> IF d[i].k = key THEN [k |-> key, v |-> value] ELSE d[i]]
    ELSE Append(d, [k |-> key, v |-> value])

\* A variant of DictDel that drops the entry and every entry after it.
DictDel_Truncate(d, key) ==
    IF key \in DictKeys(d)
    THEN SubSeq(d, 1, (CHOOSE i \in DOMAIN d : d[i].k = key) - 1)
    ELSE d

\* del d[key]
DictDel(d, key) == SelectSeq(d, LAMBDA e : e.k # key)

\* d.values()
DictValues(d) == [i \in DOMAIN d |-> d[i].v]

\* A variant of InList that never looks at the last element.
InList_SkipLast(x, list) == \E i \in 1..(Len(list) - 1) : list[i] = x

\* x in list
InList(x, list) == \E i \in DOMAIN list : list[i] = x

------------------------------------------------------------------------------
\* CartItem

\* A variant of CartItem that ignores the quantity it is given.
CartItem_UnitQuantity(product, quantity, price) ==
    [product |-> product, quantity |-> 1, price |-> Decimal(str(price))]

CartItem(product, quantity, price) ==
    [product |-> product, quantity |-> quantity, price |-> Decimal(str(price))]

to_dict(item) ==
    [product_pk |-> item.product.pk, quantity |-> item.quantity, price |-> str(item.price)]

subtotal(item) == item.price.decimal * item.quantity

------------------------------------------------------------------------------
\* Cart: read-only properties.  self is [items_dict |-> dict].

items(self) == DictValues(self.items_dict)

items_serializable(self) == [i \in DOMAIN items(self) |-> to_dict(items(self)[i])]

products(self) == [i \in DOMAIN items(self) |-> items(self)[i].product]

contains(self, product) == InList(product, products(self))

unique_count(self) == Len(self.items_dict)

is_empty(self) == unique_count(self) = 0

RECURSIVE SumSeq(_)
SumSeq(s) == IF s = <<>> THEN 0 ELSE Head(s) + SumSeq(Tail(s))

\* A variant of count that counts the items, not their quantities.
count_Items(self) == Len(self.items_dict)

count(self) == SumSeq([i \in DOMAIN items(self) |-> items(self)[i].quantity])

total(self) == SumSeq([i \in DOMAIN items(self) |-> subtotal(items(self)[i])])

------------------------------------------------------------------------------
\* Cart: construction.  catalog is the set of products the model's table holds.

get_queryset(catalog, item_pk_list) ==
    IF item_pk_list # <<>>
    THEN {p \in catalog : \E i \in DOMAIN item_pk_list : item_pk_list[i] = p.pk}
    ELSE {}

\* A variant of RehydrateItem that gives every rebuilt item the default quantity.
RehydrateItem_UnitQuantity(d, item, found) ==
    LET hit == {p \in found : p.pk = item.product_pk}
    IN  IF hit # {}
        THEN LET product == CHOOSE p \in hit : TRUE
             IN  DictSet(d, product.pk, CartItem(product, 1, Decimal(item.price)))
        ELSE d

\* A variant of RehydrateItem that keeps a record whose product was not found.
RehydrateItem_KeepStale(d, item, found) ==
    DictSet(d, item.product_pk,
            CartItem([pk |-> item.product_pk], item.quantity, Decimal(item.price)))

\* One turn of the loop over session_data: products.get(pk), then the insert.
RehydrateItem(d, item, found) ==
    LET hit == {p \in found : p.pk = item.product_pk}
    IN  IF hit # {}
        THEN LET product == CHOOSE p \in hit : TRUE
             IN  DictSet(d, product.pk,
                         CartItem(product, item.quantity, Decimal(item.price)))
        ELSE d

RECURSIVE Rehydrate(_, _, _)
Rehydrate(d, session_data, found) ==
    IF session_data = <<>> THEN d
    ELSE Rehydrate(RehydrateItem(d, Head(session_data), found), Tail(session_data), found)

\* Cart.__init__(session): the new instance.
init(sess, catalog) ==
    IF session_key \in DOMAIN sess
    THEN LET session_data == sess[session_key]
             found == get_queryset(catalog,
                          [i \in DOMAIN session_data |-> session_data[i].product_pk])
         IN  [items_dict |-> Rehydrate(<<>>, session_data, found)]
    ELSE [items_dict |-> <<>>]

------------------------------------------------------------------------------
\* Cart: mutations.  A world w is [self, session, modified, raised]: the
\* instance, the session it is bound to, and the outcome of the call.

World(c) == [self |-> carts[c], session |-> session, modified |-> modified,
             raised |-> Returned]

Raise(w, error) == [w EXCEPT !.raised = error]

\* A variant of update_session that keeps the stored records of products the
\* cart does not hold, and adds its own.
update_session_Merge(w) ==
    LET old == IF session_key \in DOMAIN w.session THEN w.session[session_key] ELSE <<>>
        kept == SelectSeq(old, LAMBDA r : r.product_pk \notin DictKeys(w.self.items_dict))
    IN  [w EXCEPT !.session = (session_key :> (kept \o items_serializable(w.self))) @@ w.session,
                  !.modified = TRUE]

update_session(w) ==
    [w EXCEPT !.session = (session_key :> items_serializable(w.self)) @@ w.session,
              !.modified = TRUE]

\* A variant of add that takes the price of the call for a product already there.
add_Reprice(w, product, price, quantity) ==
    IF quantity < 1 THEN Raise(w, InvalidQuantityAdd)
    ELSE IF contains(w.self, product) /\ price = None
    THEN LET item == DictGet(w.self.items_dict, product.pk)
         IN  update_session([w EXCEPT !.self.items_dict =
                 DictSet(@, product.pk, [item EXCEPT !.quantity = @ + quantity])])
    ELSE IF contains(w.self, product)
    THEN LET item == DictGet(w.self.items_dict, product.pk)
         IN  update_session([w EXCEPT !.self.items_dict =
                 DictSet(@, product.pk,
                         CartItem(product, item.quantity + quantity, price))])
    ELSE IF price = None THEN Raise(w, MissingPrice)
    ELSE update_session([w EXCEPT !.self.items_dict =
             DictSet(@, product.pk, CartItem(product, quantity, price))])

\* A variant of add that rejects negative quantities only.
add_AllowZero(w, product, price, quantity) ==
    IF quantity < 0 THEN Raise(w, InvalidQuantityAdd)
    ELSE IF contains(w.self, product)
    THEN LET item == DictGet(w.self.items_dict, product.pk)
         IN  update_session([w EXCEPT !.self.items_dict =
                 DictSet(@, product.pk, [item EXCEPT !.quantity = @ + quantity])])
    ELSE IF price = None THEN Raise(w, MissingPrice)
    ELSE update_session([w EXCEPT !.self.items_dict =
             DictSet(@, product.pk, CartItem(product, quantity, price))])

add(w, product, price, quantity) ==
    IF quantity < 1 THEN Raise(w, InvalidQuantityAdd)
    ELSE IF contains(w.self, product)
    THEN LET item == DictGet(w.self.items_dict, product.pk)
         IN  update_session([w EXCEPT !.self.items_dict =
                 DictSet(@, product.pk, [item EXCEPT !.quantity = @ + quantity])])
    ELSE IF price = None THEN Raise(w, MissingPrice)
    ELSE update_session([w EXCEPT !.self.items_dict =
             DictSet(@, product.pk, CartItem(product, quantity, price))])

\* A variant of remove that deletes the entry without saving the session.
remove_NoPersist(w, product) ==
    IF contains(w.self, product)
    THEN [w EXCEPT !.self.items_dict = DictDel(@, product.pk)]
    ELSE w

remove(w, product) ==
    IF contains(w.self, product)
    THEN update_session([w EXCEPT !.self.items_dict = DictDel(@, product.pk)])
    ELSE w

\* A variant of remove_single that drops the item only at quantity 0.
remove_single_KeepLast(w, product) ==
    IF contains(w.self, product)
    THEN LET item == DictGet(w.self.items_dict, product.pk)
         IN  IF item.quantity <= 0
             THEN update_session([w EXCEPT !.self.items_dict = DictDel(@, product.pk)])
             ELSE update_session([w EXCEPT !.self.items_dict =
                      DictSet(@, product.pk, [item EXCEPT !.quantity = @ - 1])])
    ELSE w

\* A variant of remove_single that drops the item whatever its quantity.
remove_single_DropAll(w, product) ==
    IF contains(w.self, product)
    THEN update_session([w EXCEPT !.self.items_dict = DictDel(@, product.pk)])
    ELSE w

remove_single(w, product) ==
    IF contains(w.self, product)
    THEN LET item == DictGet(w.self.items_dict, product.pk)
         IN  IF item.quantity <= 1
             THEN update_session([w EXCEPT !.self.items_dict = DictDel(@, product.pk)])
             ELSE update_session([w EXCEPT !.self.items_dict =
                      DictSet(@, product.pk, [item EXCEPT !.quantity = @ - 1])])
    ELSE w

\* A variant of clear that leaves an empty cart alone.
clear_SkipWhenEmpty(w) ==
    IF is_empty(w.self) THEN w ELSE update_session([w EXCEPT !.self.items_dict = <<>>])

clear(w) == update_session([w EXCEPT !.self.items_dict = <<>>])

\* A variant of set_quantity that keeps an item set to quantity 0.
set_quantity_KeepZero(w, product, quantity) ==
    IF quantity < 0 THEN Raise(w, InvalidQuantitySet)
    ELSE IF contains(w.self, product)
    THEN LET item == DictGet(w.self.items_dict, product.pk)
         IN  update_session([w EXCEPT !.self.items_dict =
                 DictSet(@, product.pk, [item EXCEPT !.quantity = quantity])])
    ELSE w

\* A variant of set_quantity that saves the session for an absent product too.
set_quantity_AlwaysPersist(w, product, quantity) ==
    IF quantity < 0 THEN Raise(w, InvalidQuantitySet)
    ELSE IF contains(w.self, product)
    THEN LET item == DictGet(w.self.items_dict, product.pk)
             set == DictSet(w.self.items_dict, product.pk, [item EXCEPT !.quantity = quantity])
         IN  IF quantity < 1
             THEN update_session([w EXCEPT !.self.items_dict = DictDel(set, product.pk)])
             ELSE update_session([w EXCEPT !.self.items_dict = set])
    ELSE update_session(w)

\* A variant of set_quantity that adds the quantity to the one stored.
set_quantity_Accumulate(w, product, quantity) ==
    IF quantity < 0 THEN Raise(w, InvalidQuantitySet)
    ELSE IF contains(w.self, product)
    THEN LET item == DictGet(w.self.items_dict, product.pk)
             set == DictSet(w.self.items_dict, product.pk,
                            [item EXCEPT !.quantity = @ + quantity])
         IN  IF quantity < 1
             THEN update_session([w EXCEPT !.self.items_dict = DictDel(set, product.pk)])
             ELSE update_session([w EXCEPT !.self.items_dict = set])
    ELSE w

\* A variant of set_quantity without the check for a negative quantity.
set_quantity_NoCheck(w, product, quantity) ==
    IF contains(w.self, product)
    THEN LET item == DictGet(w.self.items_dict, product.pk)
             set == DictSet(w.self.items_dict, product.pk, [item EXCEPT !.quantity = quantity])
         IN  IF quantity < 1
             THEN update_session([w EXCEPT !.self.items_dict = DictDel(set, product.pk)])
             ELSE update_session([w EXCEPT !.self.items_dict = set])
    ELSE w

set_quantity(w, product, quantity) ==
    IF quantity < 0 THEN Raise(w, InvalidQuantitySet)
    ELSE IF contains(w.self, product)
    THEN LET item == DictGet(w.self.items_dict, product.pk)
             set == DictSet(w.self.items_dict, product.pk, [item EXCEPT !.quantity = quantity])
         IN  IF quantity < 1
             THEN update_session([w EXCEPT !.self.items_dict = DictDel(set, product.pk)])
             ELSE update_session([w EXCEPT !.self.items_dict = set])
    ELSE w

------------------------------------------------------------------------------
\* The state machine.

\* The record of the call just made: its arguments, whether the product was
\* in the cart when it was made, and its outcome.
Call(op, c, product, price, quantity, catalog, present, raised) ==
    [op |-> op, c |-> c, product |-> product, price |-> price, quantity |-> quantity,
     catalog |-> catalog, present |-> present, raised |-> raised]

NoProduct == [pk |-> 0]
NoStreak == [c |-> 0, product |-> NoProduct, n |-> 0, k |-> 0]

\* The world of cart c with the modified marker lowered: a call on it raises
\* the marker exactly when it runs update_session.
Fresh(c) == [World(c) EXCEPT !.modified = FALSE]

\* The cart that last saved the session: c when the call saved it.
Writer(c, probe) == IF probe.modified THEN c ELSE writer

\* The world after a call becomes the state.
Commit(c, w) ==
    /\ carts' = (c :> w.self) @@ carts
    /\ session' = w.session
    /\ modified' = w.modified

\* Records a stored snapshot may hold: a quantity of 0 or 1, a price spelled
\* with or without "+".
SnapshotRecords ==
    {[product_pk |-> pk, quantity |-> r[1], price |-> r[2]] :
        pk \in PKs,
        r \in {<<0, [plus |-> FALSE, minor |-> 2]>>,
               <<1, [plus |-> FALSE, minor |-> 2]>>,
               <<1, [plus |-> TRUE, minor |-> 1]>>}}

RECURSIVE SeqsUpTo(_, _)
SeqsUpTo(S, n) ==
    IF n = 0 THEN {<<>>}
    ELSE LET shorter == SeqsUpTo(S, n - 1)
         IN  shorter \cup {Append(s, x) : s \in {t \in shorter : Len(t) = n - 1}, x \in S}

Snapshots == SeqsUpTo(SnapshotRecords, MaxSnapshot)

InitCommon ==
    /\ carts = <<>>
    /\ modified = FALSE
    /\ last = Call("none", 0, NoProduct, None, 0, {}, FALSE, Returned)
    /\ streak = NoStreak
    /\ writer = 0

\* A request whose session holds any snapshot, or none.
Init ==
    /\ InitCommon
    /\ session \in {<<>>} \cup {session_key :> s : s \in Snapshots}

\* A request whose session holds no snapshot.
InitFresh ==
    /\ InitCommon
    /\ session = <<>>

Construct(c, catalog) ==
    /\ carts' = (c :> init(session, catalog)) @@ carts
    /\ UNCHANGED <<session, modified>>
    /\ last' = Call("__init__", c, NoProduct, None, 0, catalog, FALSE, Returned)
    /\ streak' = NoStreak
    /\ writer' = IF writer = c THEN 0 ELSE writer

Add(c, product, price, quantity) ==
    /\ c \in DOMAIN carts
    /\ LET w == add(World(c), product, price, quantity)
       IN  /\ \A i \in DOMAIN w.self.items_dict :
                  w.self.items_dict[i].v.quantity <= MaxQuantity
           /\ Commit(c, w)
           /\ last' = Call("add", c, product, price, quantity, {},
                        contains(carts[c], product), w.raised)
           /\ streak' = IF w.raised = Returned /\ ~contains(carts[c], product)
                        THEN [c |-> c, product |-> product, n |-> quantity, k |-> 0]
                        ELSE NoStreak
           /\ writer' = Writer(c, add(Fresh(c), product, price, quantity))

Remove(c, product) ==
    /\ c \in DOMAIN carts
    /\ LET w == remove(World(c), product)
       IN  /\ Commit(c, w)
           /\ last' = Call("remove", c, product, None, 0, {},
                        contains(carts[c], product), w.raised)
           /\ streak' = NoStreak
           /\ writer' = Writer(c, remove(Fresh(c), product))

RemoveSingle(c, product) ==
    /\ c \in DOMAIN carts
    /\ LET w == remove_single(World(c), product)
       IN  /\ Commit(c, w)
           /\ last' = Call("remove_single", c, product, None, 0, {},
                        contains(carts[c], product), w.raised)
           /\ streak' = IF streak.c = c /\ streak.product = product /\ streak.k < streak.n
                        THEN [streak EXCEPT !.k = @ + 1]
                        ELSE NoStreak
           /\ writer' = Writer(c, remove_single(Fresh(c), product))

Clear(c) ==
    /\ c \in DOMAIN carts
    /\ LET w == clear(World(c))
       IN  /\ Commit(c, w)
           /\ last' = Call("clear", c, NoProduct, None, 0, {}, FALSE, w.raised)
           /\ streak' = NoStreak
           /\ writer' = Writer(c, clear(Fresh(c)))

SetQuantity(c, product, quantity) ==
    /\ c \in DOMAIN carts
    /\ LET w == set_quantity(World(c), product, quantity)
       IN  /\ Commit(c, w)
           /\ last' = Call("set_quantity", c, product, None, quantity, {},
                        contains(carts[c], product), w.raised)
           /\ streak' = NoStreak
           /\ writer' = Writer(c, set_quantity(Fresh(c), product, quantity))

\* Reading items, items_serializable, count, unique_count, is_empty, products,
\* total or "product in cart": none of them assigns anything.
Read(c) ==
    /\ c \in DOMAIN carts
    /\ UNCHANGED <<carts, session, modified, writer>>
    /\ last' = Call("read", c, NoProduct, None, 0, {}, FALSE, Returned)
    /\ streak' = NoStreak

\* One request at a time: a single Cart instance is bound to the session.
Next ==
    \E c \in {1} :
        \/ \E catalog \in SUBSET Products : Construct(c, catalog)
        \/ \E product \in Products, price \in PriceTexts \cup {None},
              quantity \in Quantities \ {-1} :
               Add(c, product, price, quantity)
        \/ \E product \in Products : Remove(c, product)
        \/ \E product \in Products : RemoveSingle(c, product)
        \/ Clear(c)
        \/ \E product \in Products, quantity \in Quantities : SetQuantity(c, product, quantity)
        \/ Read(c)

Spec == Init /\ [][Next]_vars

SpecFresh == InitFresh /\ [][Next]_vars

\* Two requests of one session at a time: two Cart instances bound to the
\* same session and key, their calls interleaved; the calls use one price,
\* the whole catalog and quantities that do not raise.
NextRace ==
    \E c \in Requests :
        \/ Construct(c, Products)
        \/ \E product \in Products, quantity \in 1..MaxQuantity :
               Add(c, product, [plus |-> FALSE, minor |-> 1], quantity)
        \/ \E product \in Products : Remove(c, product)
        \/ \E product \in Products : RemoveSingle(c, product)
        \/ Clear(c)
        \/ \E product \in Products, quantity \in 0..MaxQuantity :
               SetQuantity(c, product, quantity)

SpecRace == InitFresh /\ [][NextRace]_vars

------------------------------------------------------------------------------
\* Properties.

MutationOps == {"add", "remove", "remove_single", "set_quantity", "clear"}

\* The stored snapshot is the serialization of cart c.
Persisted(c) ==
    /\ session_key \in DOMAIN session
    /\ session[session_key] = items_serializable(carts[c])

\* The items of a cart as a set of (pk, quantity, price) triples.
ItemSet(self) ==
    {[pk |-> items(self)[i].product.pk, quantity |-> items(self)[i].quantity,
      price |-> items(self)[i].price] : i \in DOMAIN items(self)}

\* The item cart self holds for product; the number of items it holds for it.
ItemOf(self, product) == DictGet(self.items_dict, product.pk)
ItemsFor(self, product) ==
    Cardinality({i \in DOMAIN items(self) : items(self)[i].product = product})

\* C1 (as claimed): after any add, remove, remove_single, set_quantity or
\* clear that returns without raising, session[session_key] equals the
\* serialization of the cart's items (a session without the key counting as
\* the snapshot of an empty cart).
C1_PersistedAfterAnyMutation ==
    (last.op \in MutationOps /\ last.raised = Returned) =>
        \/ Persisted(last.c)
        \/ session_key \notin DOMAIN session /\ is_empty(carts[last.c])

\* C1 (amended): after add or clear returns, and after remove, remove_single
\* or set_quantity returns for a product that was in the cart when called,
\* session[session_key] equals the serialization of the cart's items.
C1_PersistedAfterPersistingMutation ==
    (/\ last.raised = Returned
     /\ \/ last.op \in {"add", "clear"}
        \/ last.op \in {"remove", "remove_single", "set_quantity"} /\ last.present)
    => Persisted(last.c)

\* C1 witness: remove_single lowered the quantity of an item of a cart that
\* was built from a snapshot, and the snapshot now equals the serialization.
C1_Witness ==
    /\ last.op = "remove_single" /\ last.present /\ last.raised = Returned
    /\ contains(carts[last.c], last.product)
    /\ unique_count(carts[last.c]) = 2
    /\ Persisted(last.c)

\* C2: from a cart constructed without a snapshot, every item has quantity
\* >= 1 after any sequence of calls, and a remove_single or set_quantity that
\* would leave a quantity below 1 removes the item.
C2_QuantityAtLeastOne ==
    /\ \A c \in DOMAIN carts : \A i \in DOMAIN items(carts[c]) :
           items(carts[c])[i].quantity >= 1
    /\ (/\ last.op = "set_quantity" /\ last.present
        /\ last.raised = Returned /\ last.quantity < 1)
       => ~contains(carts[last.c], last.product)
    /\ (last.op = "remove_single" /\ streak.n > 0 /\ streak.k = streak.n)
       => ~contains(carts[last.c], last.product)

\* C2 witness: the product was added with quantity 1 and one remove_single
\* removed it.
C2_Witness ==
    /\ last.op = "remove_single" /\ last.present
    /\ streak.n = 1 /\ streak.k = 1
    /\ ~contains(carts[last.c], last.product)

\* C3 (as claimed): whatever the snapshot a cart was constructed from, every
\* item of the cart has quantity >= 1.
C3_QuantityAtLeastOneFromSnapshot ==
    \A c \in DOMAIN carts : \A p \in Products :
        contains(carts[c], p) => ItemOf(carts[c], p).quantity >= 1

\* C4: add for a product present with quantity q0 and price p0, with q >= 1
\* and any price argument, leaves exactly one item for it, with quantity
\* q0 + q and price p0; adding an absent product with (q1, p1) and then the
\* same product with (q2, p2) gives one item with quantity q1 + q2 and price p1.
C4_AddToPresent ==
    [][(last'.op = "add" /\ last'.quantity >= 1 /\ last'.present) =>
         LET c == last'.c
             p == last'.product
             before == ItemOf(carts[c], p)
             after == ItemOf(carts'[c], p)
         IN  /\ last'.raised = Returned
             /\ ItemsFor(carts'[c], p) = 1
             /\ after.quantity = before.quantity + last'.quantity
             /\ after.price = before.price
             /\ (streak.n > 0 /\ streak.k = 0 /\ streak.c = c /\ streak.product = p)
                => /\ after.quantity = last.quantity + last'.quantity
                   /\ after.price = Decimal(str(last.price))]_vars

\* C4 witness: add with a price argument other than the item's price has
\* raised the quantity of an item that was already there.
C4_Witness ==
    /\ last.op = "add" /\ last.present /\ last.raised = Returned
    /\ last.price # None
    /\ ItemOf(carts[last.c], last.product).price # Decimal(str(last.price))
    /\ ItemOf(carts[last.c], last.product).quantity = MaxQuantity

\* C5: add for an absent product, with q >= 1 and a price p, returns with the
\* product contained and exactly one item for it, of quantity q and price p.
C5_AddAbsent ==
    (/\ last.op = "add" /\ ~last.present
     /\ last.quantity >= 1 /\ last.price # None)
    => /\ last.raised = Returned
       /\ contains(carts[last.c], last.product)
       /\ ItemsFor(carts[last.c], last.product) = 1
       /\ ItemOf(carts[last.c], last.product).quantity = last.quantity
       /\ ItemOf(carts[last.c], last.product).price = Decimal(str(last.price))

\* C5 witness: an absent product was added with quantity 2 and price "+1" to
\* a cart that held another product.
C5_Witness ==
    /\ last.op = "add" /\ ~last.present /\ last.raised = Returned
    /\ last.quantity = 2 /\ last.price = [plus |-> TRUE, minor |-> 1]
    /\ unique_count(carts[last.c]) = 2
    /\ contains(carts[last.c], last.product)

\* C6: add raises the quantity error whenever quantity < 1, and the missing
\* price error whenever quantity >= 1, the product is absent and no price is
\* given; either way the items, the snapshot and the modified marker stay.
C6_AddErrors ==
    [][(last'.op = "add") =>
         /\ (last'.quantity < 1) =>
                last'.raised = InvalidQuantityAdd /\ UNCHANGED <<carts, session, modified>>
         /\ (last'.quantity >= 1 /\ ~contains(carts[last'.c], last'.product)
               /\ last'.price = None) =>
                last'.raised = MissingPrice /\ UNCHANGED <<carts, session, modified>>]_vars

\* C6 witness: add with quantity 0 raised although the product was in the
\* cart and a price was given.
C6_Witness ==
    /\ last.op = "add" /\ last.raised = InvalidQuantityAdd
    /\ last.quantity = 0 /\ last.present /\ last.price # None
    /\ contains(carts[last.c], last.product)

\* C7: in every state and for every product, set_quantity(product, 0) and
\* remove(product) give the same items, snapshot, modified marker and outcome.
C7_SetZeroIsRemove ==
    \A c \in DOMAIN carts : \A p \in Products :
        LET s == set_quantity(World(c), p, 0)
            r == remove(World(c), p)
        IN  /\ s.self = r.self
            /\ s.session = r.session
            /\ s.modified = r.modified
            /\ s.raised = r.raised /\ s.raised = Returned

\* C7 witness: set_quantity(product, 0) was called on a product of quantity
\* 2 that was in the cart, and the product is gone.
C7_Witness ==
    /\ last.op = "set_quantity" /\ last.quantity = 0 /\ last.present
    /\ ~contains(carts[last.c], last.product)
    /\ unique_count(carts[last.c]) = 1
    /\ Persisted(last.c)

\* C8: after a product is added to a cart without it with quantity n, k <= n
\* consecutive remove_single calls leave quantity n - k (1 after n - 1 calls)
\* and n calls remove the item; each of these calls lowers count by 1.
C8_RemoveSingleCountdown ==
    /\ [](streak.n > 0 =>
            IF streak.k = streak.n
            THEN ~contains(carts[streak.c], streak.product)
            ELSE /\ contains(carts[streak.c], streak.product)
                 /\ ItemOf(carts[streak.c], streak.product).quantity = streak.n - streak.k)
    /\ [][(last'.op = "remove_single" /\ carts'[last'.c] # carts[last'.c]
              /\ streak'.k = streak.k + 1)
          => count(carts'[last'.c]) = count(carts[last'.c]) - 1]_vars

\* C8 witness: the product was added with quantity 2 and two remove_single
\* calls removed it.
C8_Witness ==
    /\ streak.n = 2 /\ streak.k = 2
    /\ last.op = "remove_single"
    /\ ~contains(carts[streak.c], streak.product)

\* The second cart of the round trip: built from the serialization of self.
SecondCart(self, catalog) == init(session_key :> items_serializable(self), catalog)

\* C9: a cart built from the items_serializable of a cart, through a catalog
\* that holds all its products, has the same products, quantities and prices,
\* and serializes to the same set of records.
C9_RoundTrip ==
    \A c \in DOMAIN carts : \A catalog \in SUBSET Products :
        (\A i \in DOMAIN products(carts[c]) : products(carts[c])[i] \in catalog) =>
            LET second == SecondCart(carts[c], catalog)
            IN  /\ ItemSet(second) = ItemSet(carts[c])
                /\ {items_serializable(second)[i] : i \in DOMAIN items_serializable(second)}
                   = {items_serializable(carts[c])[i] :
                          i \in DOMAIN items_serializable(carts[c])}

\* C9 witness: a cart of two items, one of quantity 2, was constructed from
\* the snapshot a cart had saved.
C9_Witness ==
    /\ last.op = "__init__" /\ modified
    /\ unique_count(carts[last.c]) = 2
    /\ \E p \in Products : contains(carts[last.c], p) /\ ItemOf(carts[last.c], p).quantity = 2
    /\ Persisted(last.c)

\* C10: construction returns without raising and the cart holds an item for
\* exactly the product identifiers of the snapshot that the catalog lookup
\* returns; without a snapshot under the key the cart is empty.
C10_ConstructDropsStale ==
    (last.op = "__init__") =>
        /\ last.raised = Returned
        /\ IF session_key \in DOMAIN session
           THEN LET session_data == session[session_key]
                    asked == [i \in DOMAIN session_data |-> session_data[i].product_pk]
                    returned == {p.pk : p \in get_queryset(last.catalog, asked)}
                IN  /\ DictKeys(carts[last.c].items_dict) =
                           {asked[i] : i \in DOMAIN asked} \cap returned
                    /\ \A i \in DOMAIN asked : asked[i] \notin {p.pk : p \in last.catalog}
                           => ~contains(carts[last.c], [pk |-> asked[i]])
           ELSE is_empty(carts[last.c])

\* C10 witness: a cart was constructed from a snapshot of two records, one
\* of a product the catalog no longer holds, and holds the other one only.
C10_Witness ==
    /\ last.op = "__init__"
    /\ session_key \in DOMAIN session
    /\ Len(session[session_key]) = 2
    /\ \E i \in DOMAIN session[session_key] :
           [pk |-> session[session_key][i].product_pk] \notin last.catalog
    /\ unique_count(carts[last.c]) = 1

\* The sum of f over the finite set S.
RECURSIVE SumFn(_, _)
SumFn(f, S) ==
    IF S = {} THEN 0
    ELSE LET x == CHOOSE y \in S : TRUE IN f[x] + SumFn(f, S \ {x})

\* C11: count is the sum of the quantities of the items, total the sum of
\* price * quantity (in minor units), unique_count the number of items, and
\* is_empty holds exactly when there is none; an empty cart has count and
\* total 0.
C11_DerivedValues ==
    \A c \in DOMAIN carts :
        LET its == items(carts[c])
        IN  /\ count(carts[c]) = SumFn([i \in DOMAIN its |-> its[i].quantity], DOMAIN its)
            /\ total(carts[c]) =
                   SumFn([i \in DOMAIN its |-> its[i].price.decimal * its[i].quantity],
                         DOMAIN its)
            /\ unique_count(carts[c]) = Cardinality(DOMAIN its)
            /\ is_empty(carts[c]) <=> (its = <<>>)
            /\ is_empty(carts[c]) <=> (unique_count(carts[c]) = 0)
            /\ (its = <<>>) => (count(carts[c]) = 0 /\ total(carts[c]) = 0)

\* C11 witness: a cart of two items with quantities 2 and 1 and prices 1 and
\* 2: count 3, total 4.
C11_Witness ==
    \E c \in DOMAIN carts :
        /\ unique_count(carts[c]) = 2
        /\ count(carts[c]) = 3
        /\ total(carts[c]) = 4
        /\ ~is_empty(carts[c])

\* C12: for a product that is not in the cart, remove, remove_single and
\* set_quantity with q >= 0 return without error and leave the items, the
\* snapshot and the modified marker as they were.
C12_AbsentIsNoOp ==
    \A c \in DOMAIN carts : \A p \in Products :
        ~contains(carts[c], p) =>
            /\ remove(World(c), p) = World(c)
            /\ remove_single(World(c), p) = World(c)
            /\ \A q \in Quantities : q >= 0 => set_quantity(World(c), p, q) = World(c)

\* C12 witness: set_quantity(product, 2) was called for an absent product on
\* a cart that differs from the stored snapshot, and nothing was saved.
C12_Witness ==
    /\ last.op = "set_quantity" /\ ~last.present /\ last.quantity = 2
    /\ last.raised = Returned
    /\ ~contains(carts[last.c], last.product)
    /\ ~modified
    /\ session_key \in DOMAIN session
    /\ session[session_key] # items_serializable(carts[last.c])

\* C13: a product is contained in the cart exactly when its pk is a key of
\* the item mapping, and the presence test each mutation made agrees with
\* key membership at the time of the call.
C13_ContainsIsKeyMembership ==
    /\ [](\A c \in DOMAIN carts : \A p \in Products :
              contains(carts[c], p) <=> p.pk \in DictKeys(carts[c].items_dict))
    /\ [][(last'.op \in {"add", "remove", "remove_single", "set_quantity"}) =>
              (last'.present <=> last'.product.pk \in DictKeys(carts[last'.c].items_dict))]_vars

\* C13 witness: a cart that holds product 2 and not product 1.
C13_Witness ==
    \E c \in DOMAIN carts :
        /\ contains(carts[c], [pk |-> 2]) /\ 2 \in DictKeys(carts[c].items_dict)
        /\ ~contains(carts[c], [pk |-> 1]) /\ 1 \notin DictKeys(carts[c].items_dict)
        /\ last.op = "read"

\* C14: an item that is in the cart before and after a mutation call has
\* the same price after as before.
C14_PriceFixed ==
    [][(last'.op \in MutationOps) =>
         \A p \in Products :
             (contains(carts[last'.c], p) /\ contains(carts'[last'.c], p)) =>
                 ItemOf(carts'[last'.c], p).price = ItemOf(carts[last'.c], p).price]_vars

\* C14 witness: set_quantity(product, 2) was called on an item of price 1
\* in a cart of two items, and the item is still there.
C14_Witness ==
    /\ last.op = "set_quantity" /\ last.present /\ last.quantity = 2
    /\ contains(carts[last.c], last.product)
    /\ ItemOf(carts[last.c], last.product).price = [decimal |-> 1]
    /\ unique_count(carts[last.c]) = 2

\* C15: every key of the item mapping is the pk of the product of its item,
\* no two entries share a key, and a cart built from a snapshot holds no
\* more items than the snapshot has distinct product identifiers.
C15_KeyIsProductPk ==
    /\ \A c \in DOMAIN carts :
           LET d == carts[c].items_dict
           IN  /\ \A i \in DOMAIN d : d[i].k = d[i].v.product.pk
               /\ \A i, j \in DOMAIN d : d[i].k = d[j].k => i = j
               /\ unique_count(carts[c]) <= Cardinality(PKs)
    /\ (last.op = "__init__" /\ session_key \in DOMAIN session) =>
           unique_count(carts[last.c]) <=
               Cardinality({session[session_key][i].product_pk :
                                i \in DOMAIN session[session_key]})

\* C15 witness: a cart built from a snapshot of two records for the same
\* product holds one item.
C15_Witness ==
    /\ last.op = "__init__"
    /\ session_key \in DOMAIN session
    /\ Len(session[session_key]) = 2
    /\ session[session_key][1].product_pk = session[session_key][2].product_pk
    /\ session[session_key][1] # session[session_key][2]
    /\ unique_count(carts[last.c]) = 1

\* C16: set_quantity(product, q) with q >= 1 on a product in the cart returns
\* with the item still there at quantity exactly q, and the snapshot it saved
\* records q for the product.
C16_SetQuantityReplaces ==
    (/\ last.op = "set_quantity" /\ last.present /\ last.quantity >= 1)
    => /\ last.raised = Returned
       /\ contains(carts[last.c], last.product)
       /\ ItemOf(carts[last.c], last.product).quantity = last.quantity
       /\ Persisted(last.c)
       /\ \A i \in DOMAIN session[session_key] :
              session[session_key][i].product_pk = last.product.pk
                  => session[session_key][i].quantity = last.quantity
       /\ \E i \in DOMAIN session[session_key] :
              session[session_key][i].product_pk = last.product.pk

\* C16 witness: set_quantity(product, 1) was called on an item of a cart of
\* two items, which saved the session.
C16_Witness ==
    /\ last.op = "set_quantity" /\ last.present /\ last.quantity = 1
    /\ last.raised = Returned
    /\ ItemOf(carts[last.c], last.product).quantity = 1
    /\ writer = last.c
    /\ unique_count(carts[last.c]) = 2

\* C17: set_quantity raises the quantity error whenever quantity < 0, for a
\* product in the cart or not, and leaves the items, the snapshot and the
\* modified marker as they were.
C17_SetQuantityError ==
    [][(last'.op = "set_quantity" /\ last'.quantity < 0) =>
         /\ last'.raised = InvalidQuantitySet
         /\ UNCHANGED <<carts, session, modified>>]_vars

\* C17 witness: set_quantity(product, -1) raised for a product in the cart.
C17_Witness ==
    /\ last.op = "set_quantity" /\ last.quantity = -1 /\ last.present
    /\ last.raised = InvalidQuantitySet
    /\ contains(carts[last.c], last.product)

\* The call just made saved the session.
SavingCall ==
    /\ last.op \in MutationOps /\ last.raised = Returned
    /\ last.op \in {"add", "clear"} \/ last.present

\* The stored snapshot has a record for product.
Stored(product) ==
    /\ session_key \in DOMAIN session
    /\ \E i \in DOMAIN session[session_key] :
           session[session_key][i].product_pk = product.pk

\* C18: with two carts on one session and key, the snapshot is always the
\* whole serialization of the cart that saved last, never a merge: what only
\* the other cart holds is not in it.
C18_LastWriteWins ==
    /\ SavingCall => writer = last.c
    /\ writer # 0 =>
           /\ Persisted(writer)
           /\ \A d \in DOMAIN carts \ {writer} : \A p \in Products :
                  (contains(carts[d], p) /\ ~contains(carts[writer], p)) => ~Stored(p)

\* C18 witness: cart 2 saved last; cart 1 holds a product that cart 2 does
\* not hold and the snapshot holds cart 2's item only.
C18_Witness ==
    /\ writer = 2 /\ 1 \in DOMAIN carts
    /\ unique_count(carts[2]) = 1
    /\ \E p \in Products :
           contains(carts[1], p) /\ ~contains(carts[2], p) /\ ~Stored(p)

\* C19: the slot and the modified marker change only in a mutation call that
\* saves; a call that saves leaves the marker set and the slot equal to the
\* serialization of its cart; clear leaves an empty snapshot and the marker
\* set, also on an empty cart; construction and reads change neither.
C19_WritesOnlyBySaving ==
    [][/\ (session' # session \/ modified' # modified) => SavingCall'
       /\ SavingCall' =>
              /\ modified'
              /\ session_key \in DOMAIN session'
              /\ session'[session_key] = items_serializable(carts'[last'.c])
       /\ (last'.op = "clear") =>
              /\ modified'
              /\ session_key \in DOMAIN session'
              /\ session'[session_key] = <<>>
       /\ (last'.op \in {"__init__", "read"}) => UNCHANGED <<session, modified>>]_vars

\* C19 witness: a cart was constructed from a snapshot of two records, kept
\* none of them, and the slot and the marker are as they were.
C19_Witness ==
    /\ last.op = "__init__" /\ ~modified
    /\ session_key \in DOMAIN session
    /\ Len(session[session_key]) = 2
    /\ is_empty(carts[last.c])

\* C20: add, remove, remove_single and set_quantity on a product, returning
\* or raising, leave every other product as it was: in the cart or not, and
\* with the same quantity and price.
C20_OtherProductsUntouched ==
    [][(last'.op \in {"add", "remove", "remove_single", "set_quantity"}) =>
         \A r \in Products \ {last'.product} :
             /\ contains(carts'[last'.c], r) <=> contains(carts[last'.c], r)
             /\ contains(carts[last'.c], r) =>
                    /\ ItemOf(carts'[last'.c], r).quantity = ItemOf(carts[last'.c], r).quantity
                    /\ ItemOf(carts'[last'.c], r).price = ItemOf(carts[last'.c], r).price]_vars

\* C20 witness: remove took a product out of a cart that still holds the
\* other product with quantity 2.
C20_Witness ==
    /\ last.op = "remove" /\ last.present
    /\ ~contains(carts[last.c], last.product)
    /\ \E r \in Products \ {last.product} :
           contains(carts[last.c], r) /\ ItemOf(carts[last.c], r).quantity = 2

====
